---- MODULE Spec2Model ----
(***************************************************************************)
(* A model of the Escrow.com API client (src/escrowService.js): the        *)
(* request core EscrowAPI.makeRequest, the resource facades, the           *)
(* aggregator EscrowClient, EscrowUtils.getTransactionStatus, and the test *)
(* runner EscrowAPITester with its entry point main().                     *)
(*                                                                         *)
(* JavaScript values are tagged records, so that absence (undefined),      *)
(* null and truthiness are modelled as the language defines them.          *)
(***************************************************************************)
EXTENDS Integers, Sequences, FiniteSets, TLC

(***************************************************************************)
(* Bounds of the model.                                                    *)
(***************************************************************************)
\* transaction ids the server hands out are 1..MaxId
MaxId == 2
\* a classified transaction record has at most MaxParties parties, MaxItems
\* items, and MaxSchedule schedule entries per item
MaxParties == 2
MaxItems == 1
MaxSchedule == 1
\* calls made on one client
MaxCalls == 2

(***************************************************************************)
(* JavaScript values.                                                      *)
(***************************************************************************)
Undefined == [t |-> "undefined"]
Null == [t |-> "null"]
Bool(b) == [t |-> "boolean", b |-> b]
Num(n) == [t |-> "number", n |-> n]
Str(s) == [t |-> "string", s |-> s]
\* an object literal: its properties in insertion order, each <<key, value>>
Obj(props) == [t |-> "object", props |-> props]
Arr(elems) == [t |-> "array", elems |-> elems]

\* ToBoolean: what `if (v)`, `!v`, `a && b`, `a || b` test
Truthy(v) ==
  CASE v.t = "undefined" -> FALSE
    [] v.t = "null" -> FALSE
    [] v.t = "boolean" -> v.b
    [] v.t = "number" -> v.n # 0
    [] v.t = "string" -> v.s # ""
    [] OTHER -> TRUE

\* reading a property of null or undefined throws a TypeError
IsNullish(v) == v.t \in {"undefined", "null"}

\* v[key] for a value that is not nullish: undefined when the property is absent
Get(v, key) ==
  IF v.t = "object" /\ \E i \in 1..Len(v.props) : v.props[i][1] = key
    THEN v.props[CHOOSE i \in 1..Len(v.props) : v.props[i][1] = key][2]
    ELSE Undefined

\* a default `key = d` of a parameter or a destructuring: d replaces
\* undefined only
Default(v, d) == IF v.t = "undefined" THEN d ELSE v

\* String(v), as a template literal `${v}` and v.toString() render a primitive
ToStr(v) ==
  CASE v.t = "string" -> v.s
    [] v.t = "number" -> ToString(v.n)
    [] v.t = "boolean" -> (IF v.b THEN "true" ELSE "false")
    [] v.t = "null" -> "null"
    [] v.t = "undefined" -> "undefined"
    [] OTHER -> "[object Object]"

RECURSIVE JoinFrom(_, _, _)
JoinFrom(strs, sep, i) ==
  IF i > Len(strs) THEN ""
  ELSE IF i = Len(strs) THEN strs[i]
  ELSE strs[i] \o sep \o JoinFrom(strs, sep, i + 1)

\* Array.prototype.join; the array is evaluated once
Join(strs, sep) == CHOOSE r \in { JoinFrom(q, sep, 1) : q \in {strs} } : TRUE

SelectProps(props) == SelectSeq(props, LAMBDA p : p[2].t # "undefined")

\* JSON.stringify: undefined-valued properties are dropped, undefined array
\* elements become null
RECURSIVE JSONStringify(_)
JSONEncode(v) ==
  CASE v.t = "string" -> "\"" \o v.s \o "\""
    [] v.t = "number" -> ToString(v.n)
    [] v.t = "boolean" -> (IF v.b THEN "true" ELSE "false")
    [] v.t = "null" -> "null"
    [] v.t = "array" ->
         "[" \o Join([i \in 1..Len(v.elems) |->
                        IF v.elems[i].t = "undefined" THEN "null"
                        ELSE JSONStringify(v.elems[i])], ",") \o "]"
    [] v.t = "object" ->
         LET ps == SelectProps(v.props)
         IN "{" \o Join([i \in 1..Len(ps) |->
                           "\"" \o ps[i][1] \o "\":" \o JSONStringify(ps[i][2])], ",")
                \o "}"
    [] OTHER -> "undefined"

\* JSON.stringify(value); the value is evaluated once, then encoded
JSONStringify(value) == CHOOSE r \in { JSONEncode(v) : v \in {value} } : TRUE

(***************************************************************************)
(* The remote server and the transport: what fetch can answer.            *)
(***************************************************************************)
\* the items of a transaction the server returns: none, or one
RespItems == { Arr(<< >>), Arr(<< Obj(<< <<"quantity", Num(1)>> >>) >>) }

\* a transaction record as POST /transaction answers it
RespTransaction(id, items) ==
  Obj(<< <<"id", Num(id)>>, <<"items", items>> >>)

\* the JSON documents the server sends in this model
JSONUniverse ==
  { Null,
    Obj(<<>>),
    Obj(<<<<"error", Str("Invalid credentials")>>>>),
    Obj(<<<<"error", Str("")>>>>) }
  \cup { Obj(<<<<"id", Num(id)>>>>) : id \in 1..MaxId }
  \cup { RespTransaction(id, items) : id \in 1..MaxId, items \in RespItems }

\* bodies that are not JSON documents
NonJSONTexts == { "", "<html>Bad Gateway</html>" }

\* response.json(): the document whose encoding the text is, or a SyntaxError
Encodings == { <<JSONStringify(v), v>> : v \in JSONUniverse }

JSONParse(text) ==
  IF \E e \in Encodings : e[1] = text
    THEN [ok |-> TRUE, value |-> (CHOOSE e \in Encodings : e[1] = text)[2]]
    ELSE [ok |-> FALSE, value |-> Undefined]

ServerTexts == { e[1] : e \in Encodings } \cup NonJSONTexts

Statuses == { 200, 201, 401, 500 }

StatusText(status) ==
  CASE status = 200 -> "OK"
    [] status = 201 -> "Created"
    [] status = 401 -> "Unauthorized"
    [] OTHER -> "Internal Server Error"

\* response.headers.get("content-type"): null when the header is absent
ContentTypes ==
  { Null, Str("application/json"), Str("application/json; charset=utf-8"),
    Str("text/html") }

\* contentType.includes("application/json"), over ContentTypes
IncludesJSON(ct) ==
  ct.t = "string" /\ ct.s \in { "application/json", "application/json; charset=utf-8" }

Responses ==
  [ status : Statuses, contentType : ContentTypes, text : ServerTexts ]

\* response.ok
ResponseOk(resp) == resp.status >= 200 /\ resp.status <= 299

\* what `await fetch(url, options)` does: it rejects (DNS, connection) or it
\* resolves with a response
NetworkError == [name |-> "TypeError", message |-> "fetch failed"]

Network ==
  { [kind |-> "reject"] } \cup { [kind |-> "response", resp |-> r] : r \in Responses }

(***************************************************************************)
(* 1. EscrowAPI: configuration and the base request method.                *)
(***************************************************************************)
\* Buffer.from(s).toString("base64"), kept symbolic: an injective encoding
Base64(s) == "base64(" \o s \o ")"

\* the constructor
EscrowAPI(email, password, isProduction) ==
  [ email |-> email,
    password |-> password,
    baseURL |-> IF isProduction THEN "https://api.escrow.com"
                ELSE "https://api.escrow-sandbox.com",
    version |-> "2017-09-01",
    authHeader |-> "Basic " \o Base64(email \o ":" \o password) ]

\* a variant that attaches the body whatever the verb
RequestBodyAnyVerb(method, data) ==
  IF Truthy(data) THEN Str(JSONStringify(data)) ELSE Undefined

\* options.body: set only for a truthy data and a POST or PATCH
RequestBody(method, data) ==
  IF Truthy(data) /\ (method = "POST" \/ method = "PATCH")
    THEN Str(JSONStringify(data))
    ELSE Undefined

\* url and options as handed to fetch
Request(api, endpoint, method, data) ==
  [ url |-> api.baseURL \o "/" \o api.version \o endpoint,
    host |-> api.baseURL,
    path |-> endpoint,
    method |-> method,
    headers |-> [ Authorization |-> api.authHeader,
                  ContentType |-> "application/json",
                  Accept |-> "application/json" ],
    body |-> RequestBody(method, data) ]

\* a variant that sends the request again after a failure
FetchesWithRetry(request, net) ==
  IF net.kind = "reject" \/ ~ResponseOk(net.resp)
    THEN <<request, request>>
    ELSE <<request>>

\* the fetch calls one makeRequest performs: one, whatever the answer
Fetches(request, net) == <<request>>

Return(v) == [kind |-> "return", value |-> v]
Throw(e) == [kind |-> "throw", error |-> e]

\* a variant without the inner try: the body's parse failure is thrown
HttpErrorParseEscapes(resp) ==
  LET parsed == JSONParse(resp.text)
  IN IF ~parsed.ok
       THEN [name |-> "SyntaxError", message |-> "Unexpected token in JSON"]
       ELSE [name |-> "Error",
             message |-> "API Error: " \o ToString(resp.status) \o " - "
                           \o StatusText(resp.status)]

\* the error thrown for a response that is not ok: the message names the
\* status and the body's error field, or the status text when the body is
\* not JSON or has no (truthy) error field; `new Error(errorMessage)` has no
\* other field
HttpError(resp) ==
  LET parsed == JSONParse(resp.text)
      errorData == parsed.value
      hasError == parsed.ok /\ Truthy(errorData) /\ Truthy(Get(errorData, "error"))
  IN [ name |-> "Error",
       message |-> IF hasError
                     THEN "API Error: " \o ToString(resp.status) \o " - "
                            \o ToStr(Get(errorData, "error"))
                     ELSE "API Error: " \o ToString(resp.status) \o " - "
                            \o StatusText(resp.status) ]

\* the value returned for an ok response
SuccessOutcome(resp) ==
  IF Truthy(resp.contentType) /\ IncludesJSON(resp.contentType)
    THEN LET parsed == JSONParse(resp.text)
         IN IF parsed.ok THEN Return(parsed.value)
            ELSE Throw([name |-> "SyntaxError",
                        message |-> "Unexpected token in JSON"])
    ELSE Return(Obj(<<<<"message", Str(resp.text)>>>>))

\* makeRequest(endpoint, method, data) under the answer `net` of the
\* transport: the requests sent, and the call's outcome. The outer catch
\* logs and rethrows the same error.
makeRequest(api, endpoint, method, data, net) ==
  LET request == Request(api, endpoint, method, Default(data, Null))
  IN [ sent |-> Fetches(request, net),
       outcome |-> IF net.kind = "reject" THEN Throw(NetworkError)
                   ELSE IF ~ResponseOk(net.resp) THEN Throw(HttpError(net.resp))
                   ELSE SuccessOutcome(net.resp) ]

(***************************************************************************)
(* 2-7. The resource facades. Each builds one endpoint, verb and payload    *)
(* and hands them to makeRequest; Call is that descriptor.                 *)
(***************************************************************************)
Call(endpoint, method, data) ==
  [endpoint |-> endpoint, method |-> method, data |-> data]

\* the application/x-www-form-urlencoded serializer of URLSearchParams, over
\* the strings of this model: it leaves letters, digits, '-', '.', '_' and
\* '*' alone and percent-encodes the rest
FormEncode(s) ==
  CASE s = "https://example.com/return" -> "https%3A%2F%2Fexample.com%2Freturn"
    [] s = "a b" -> "a+b"
    [] OTHER -> s

\* URLSearchParams.toString() of the <<name, value>> pairs appended so far
QueryString(params) ==
  Join([i \in 1..Len(params) |->
          FormEncode(params[i][1]) \o "=" \o FormEncode(params[i][2])], "&")

\* --- EscrowCustomer
getMyProfile == Call("/customer/me", "GET", Null)
getCustomer(customerId) == Call("/customer/" \o ToStr(customerId), "GET", Null)
getAPIKeys == Call("/customer/me/api_key", "GET", Null)
createAPIKey(name) ==
  Call("/customer/me/api_key", "POST", Obj(<<<<"name", name>>>>))
getDisbursementMethods == Call("/customer/me/disbursement_methods", "GET", Null)
getWebhooks == Call("/customer/me/webhook", "GET", Null)
createWebhook(url) ==
  Call("/customer/me/webhook", "POST", Obj(<<<<"url", url>>>>))

\* --- EscrowTransaction
\* a variant whose sort direction defaults to ascending
listTransactionsAscending(options) ==
  LET page == Default(Get(options, "page"), Num(1))
      per_page == Default(Get(options, "per_page"), Num(10))
      sort_by == Default(Get(options, "sort_by"), Str("id"))
      sort_direction == Default(Get(options, "sort_direction"), Str("asc"))
      params == << <<"page", ToStr(page)>>, <<"per_page", ToStr(per_page)>>,
                   <<"sort_by", ToStr(sort_by)>>,
                   <<"sort_direction", ToStr(sort_direction)>> >>
  IN Call("/transaction?" \o QueryString(params), "GET", Null)

listTransactions(options) ==
  LET page == Default(Get(options, "page"), Num(1))
      per_page == Default(Get(options, "per_page"), Num(10))
      sort_by == Default(Get(options, "sort_by"), Str("id"))
      sort_direction == Default(Get(options, "sort_direction"), Str("desc"))
      params == << <<"page", ToStr(page)>>, <<"per_page", ToStr(per_page)>>,
                   <<"sort_by", ToStr(sort_by)>>,
                   <<"sort_direction", ToStr(sort_direction)>> >>
  IN Call("/transaction?" \o QueryString(params), "GET", Null)

getTransaction(transactionId) ==
  Call("/transaction/" \o ToStr(transactionId), "GET", Null)
getTransactionByReference(reference) ==
  Call("/transaction/reference/" \o ToStr(reference), "GET", Null)
createTransaction(transactionData) == Call("/transaction", "POST", transactionData)
\* a variant that posts the action
performActionAsPost(transactionId, action) ==
  Call("/transaction/" \o ToStr(transactionId), "POST", action)

performAction(transactionId, action) ==
  Call("/transaction/" \o ToStr(transactionId), "PATCH", action)
getTimeline(transactionId) ==
  Call("/transaction/" \o ToStr(transactionId) \o "/timeline-entries", "GET", Null)

\* --- EscrowPayments
getPaymentMethods(transactionId) ==
  Call("/transaction/" \o ToStr(transactionId) \o "/payment_methods", "GET", Null)
selectPaymentMethod(transactionId, paymentMethod, options) ==
  Call("/transaction/" \o ToStr(transactionId) \o "/payment_methods/"
         \o ToStr(paymentMethod),
       "POST", Default(options, Obj(<<>>)))
getWireDetails(transactionId) ==
  Call("/transaction/" \o ToStr(transactionId) \o "/payment_methods/wire_transfer",
       "GET", Null)
getPayPalURL(transactionId, returnUrl, redirectType) ==
  LET params == << <<"return_url", ToStr(returnUrl)>>,
                   <<"redirect_type", ToStr(Default(redirectType, Str("manual")))>> >>
  IN Call("/transaction/" \o ToStr(transactionId) \o "/payment_methods/paypal?"
            \o QueryString(params), "GET", Null)

\* --- EscrowDisbursement
getTransactionDisbursements(transactionId) ==
  Call("/transaction/" \o ToStr(transactionId) \o "/disbursement_methods", "GET", Null)
setDisbursementMethod(transactionId, disbursementData) ==
  Call("/transaction/" \o ToStr(transactionId) \o "/disbursement_methods",
       "PATCH", disbursementData)

\* --- EscrowMilestones
performItemAction(transactionId, itemId, action) ==
  Call("/transaction/" \o ToStr(transactionId) \o "/item/" \o ToStr(itemId),
       "PATCH", action)
getItemWebLink(transactionId, itemId, action) ==
  Call("/transaction/" \o ToStr(transactionId) \o "/item/" \o ToStr(itemId)
         \o "/web_link/" \o ToStr(action), "GET", Null)

\* --- EscrowPartner
\* `if (v) params.append(name, v.toString())`
OptionalParam(name, v) ==
  IF Truthy(v) THEN << <<name, ToStr(v)>> >> ELSE << >>

\* the entries of `params` when listPartnerTransactions has appended them all
PartnerTransactionParams(filters) ==
  LET limit == Default(Get(filters, "limit"), Num(10))
      next_cursor == Default(Get(filters, "next_cursor"), Num(1))
      sort_by == Default(Get(filters, "sort_by"), Str("id"))
      sort_direction == Default(Get(filters, "sort_direction"), Str("desc"))
      customer_ids == Get(filters, "customer_ids")
  IN << <<"limit", ToStr(limit)>>, <<"next_cursor", ToStr(next_cursor)>>,
        <<"sort_by", ToStr(sort_by)>>, <<"sort_direction", ToStr(sort_direction)>> >>
     \o OptionalParam("status", Get(filters, "status"))
     \o (IF Truthy(customer_ids)
           THEN [i \in 1..Len(customer_ids.elems) |->
                   <<"customer_ids", ToStr(customer_ids.elems[i])>>]
           ELSE << >>)
     \o OptionalParam("min_amount", Get(filters, "min_amount"))
     \o OptionalParam("max_amount", Get(filters, "max_amount"))
     \o OptionalParam("initiation_start_date", Get(filters, "initiation_start_date"))
     \o OptionalParam("initiation_end_date", Get(filters, "initiation_end_date"))

listPartnerTransactions(filters) ==
  Call("/partner/transactions?" \o QueryString(PartnerTransactionParams(filters)),
       "GET", Null)

listPartnerCustomers(options) ==
  LET limit == Default(Get(options, "limit"), Num(10))
      next_cursor == Default(Get(options, "next_cursor"), Num(1))
      sort_by == Default(Get(options, "sort_by"), Str("id"))
      sort_direction == Default(Get(options, "sort_direction"), Str("desc"))
      params == << <<"limit", ToStr(limit)>>, <<"next_cursor", ToStr(next_cursor)>>,
                   <<"sort_by", ToStr(sort_by)>>,
                   <<"sort_direction", ToStr(sort_direction)>> >>
  IN Call("/partner/customers?" \o QueryString(params), "GET", Null)

generateReport(reportData) == Call("/partner/reports", "POST", reportData)
listReports == Call("/partner/reports", "GET", Null)
downloadReport(taskId, asJson) ==
  Call("/partner/reports/" \o ToStr(taskId) \o "/download"
         \o (IF Truthy(asJson) THEN "?as_json=true" ELSE ""), "GET", Null)

(***************************************************************************)
(* 8. EscrowClient: the aggregator and its helpers.                        *)
(***************************************************************************)
\* a variant that builds the partner facade without the environment flag
EscrowClientPartnerDefault(email, password, isProduction) ==
  [ self |-> EscrowAPI(email, password, isProduction),
    customers |-> EscrowAPI(email, password, isProduction),
    transactions |-> EscrowAPI(email, password, isProduction),
    payments |-> EscrowAPI(email, password, isProduction),
    disbursements |-> EscrowAPI(email, password, isProduction),
    milestones |-> EscrowAPI(email, password, isProduction),
    partner |-> EscrowAPI(email, password, FALSE) ]

\* the constructor: the client's own EscrowAPI state and one facade each
EscrowClient(email, password, isProduction) ==
  [ self |-> EscrowAPI(email, password, isProduction),
    customers |-> EscrowAPI(email, password, isProduction),
    transactions |-> EscrowAPI(email, password, isProduction),
    payments |-> EscrowAPI(email, password, isProduction),
    disbursements |-> EscrowAPI(email, password, isProduction),
    milestones |-> EscrowAPI(email, password, isProduction),
    partner |-> EscrowAPI(email, password, isProduction) ]

createBasicTransaction(buyerEmail, sellerEmail, itemTitle, itemDescription, amount, currency) ==
  createTransaction(Obj(<<
    <<"description", Str("Sale of " \o ToStr(itemTitle))>>,
    <<"currency", Default(currency, Str("usd"))>>,
    <<"parties", Arr(<<
        Obj(<< <<"customer", buyerEmail>>, <<"role", Str("buyer")>> >>),
        Obj(<< <<"customer", sellerEmail>>, <<"role", Str("seller")>> >>) >>)>>,
    <<"items", Arr(<<
        Obj(<<
          <<"title", itemTitle>>,
          <<"description", itemDescription>>,
          <<"type", Str("general_merchandise")>>,
          <<"inspection_period", Num(259200)>>,
          <<"quantity", Num(1)>>,
          <<"schedule", Arr(<<
              Obj(<< <<"amount", Str(ToStr(amount))>>,
                     <<"payer_customer", buyerEmail>>,
                     <<"beneficiary_customer", sellerEmail>> >>) >>)>>,
          <<"fees", Arr(<<
              Obj(<< <<"type", Str("escrow")>>,
                     <<"payer_customer", buyerEmail>>,
                     <<"split", Str("0.5")>> >>),
              Obj(<< <<"type", Str("escrow")>>,
                     <<"payer_customer", sellerEmail>>,
                     <<"split", Str("0.5")>> >>) >>)>>
        >>) >>)>>
  >>))

agreeToTransaction(transactionId) ==
  performAction(transactionId, Obj(<< <<"action", Str("agree")>> >>))

shipItem(transactionId, carrier, trackingId) ==
  performAction(transactionId, Obj(<<
    <<"action", Str("ship")>>,
    <<"shipping_information", Obj(<<
        <<"tracking_information", Obj(<<
            <<"carrier", carrier>>, <<"tracking_id", trackingId>> >>)>> >>)>> >>))

acceptItem(transactionId) ==
  performAction(transactionId, Obj(<< <<"action", Str("accept")>> >>))

rejectItem(transactionId, reason) ==
  performAction(transactionId, Obj(<<
    <<"action", Str("reject")>>,
    <<"rejection_information", Obj(<< <<"rejection_reason", reason>> >>)>> >>))

(***************************************************************************)
(* 10. EscrowUtils.getTransactionStatus.                                   *)
(***************************************************************************)
\* Number(v), over the amounts of this model
ToNumber(v) ==
  CASE v.t = "number" -> v.n
    [] v = Str("100.00") -> 100
    [] v = Str("100") -> 100
    [] OTHER -> 0

\* EscrowUtils.formatAmount: Number(amount).toFixed(2), of a whole amount
formatAmount(amount) == ToString(ToNumber(amount)) \o ".00"

\* v?.key
OptGet(v, key) == IF IsNullish(v) THEN Undefined ELSE Get(v, key)

TypeError == [name |-> "TypeError", message |-> "Cannot read properties of undefined"]

\* item.schedule.some((schedule) => schedule.status?.secured): it throws when
\* item.schedule is undefined
ScheduleThrows(item) == IsNullish(Get(item, "schedule"))
ScheduleSecured(item) ==
  LET schedule == Get(item, "schedule")
  IN \E k \in 1..Len(schedule.elems) :
       Truthy(OptGet(Get(schedule.elems[k], "status"), "secured"))

\* items.some(callback) visits the items in order and stops at the first one
\* whose callback is truthy or throws
FirstDecisive(items) ==
  LET hits == { i \in 1..Len(items.elems) :
                  ScheduleThrows(items.elems[i]) \/ ScheduleSecured(items.elems[i]) }
  IN IF hits = {} THEN 0 ELSE CHOOSE i \in hits : \A j \in hits : i <= j

\* parties.every((party) => party.agreed)
AllAgreed(parties) ==
  \A i \in 1..Len(parties.elems) : Truthy(Get(parties.elems[i], "agreed"))

\* a variant that tests the draft flag before the cancelled flag
IsCancelledAfterDraft(transaction) ==
  Truthy(Get(transaction, "is_cancelled")) /\ ~Truthy(Get(transaction, "is_draft"))

\* the first check: `if (transaction.is_cancelled)`
IsCancelled(transaction) == Truthy(Get(transaction, "is_cancelled"))

\* a variant that leaves the acceptance check out
HasAcceptedSkipped(items) == TRUE

\* items.some((item) => item.status?.accepted)
HasAccepted(items) ==
  \E i \in 1..Len(items.elems) :
    Truthy(OptGet(Get(items.elems[i], "status"), "accepted"))

\* items.some((item) => item.status?.shipped)
HasShipped(items) ==
  \E i \in 1..Len(items.elems) :
    Truthy(OptGet(Get(items.elems[i], "status"), "shipped"))

\* a variant that looks at shipment before payment
getTransactionStatusShipmentFirst(transaction) ==
  LET parties == Get(transaction, "parties")
      items == Get(transaction, "items")
  IN IF IsCancelled(transaction) THEN Return("cancelled")
     ELSE IF Truthy(Get(transaction, "is_draft")) THEN Return("draft")
     ELSE IF IsNullish(parties) THEN Throw(TypeError)
     ELSE IF ~AllAgreed(parties) THEN Return("pending_agreement")
     ELSE IF IsNullish(items) THEN Throw(TypeError)
     ELSE IF HasShipped(items) /\ ~HasAccepted(items) THEN Return("pending_acceptance")
     ELSE IF FirstDecisive(items) # 0
               /\ ScheduleThrows(items.elems[FirstDecisive(items)])
            THEN Throw(TypeError)
     ELSE IF FirstDecisive(items) = 0 THEN Return("pending_payment")
     ELSE IF ~HasShipped(items) THEN Return("pending_shipment")
     ELSE IF ~HasAccepted(items) THEN Return("pending_acceptance")
     ELSE Return("completed")

getTransactionStatus(transaction) ==
  LET parties == Get(transaction, "parties")
      items == Get(transaction, "items")
  IN IF IsCancelled(transaction) THEN Return("cancelled")
     ELSE IF Truthy(Get(transaction, "is_draft")) THEN Return("draft")
     ELSE IF IsNullish(parties) THEN Throw(TypeError)
     ELSE IF ~AllAgreed(parties) THEN Return("pending_agreement")
     ELSE IF IsNullish(items) THEN Throw(TypeError)
     ELSE IF FirstDecisive(items) # 0
               /\ ScheduleThrows(items.elems[FirstDecisive(items)])
            THEN Throw(TypeError)
     ELSE IF FirstDecisive(items) = 0 THEN Return("pending_payment")
     ELSE IF ~HasShipped(items) THEN Return("pending_shipment")
     ELSE IF ~HasAccepted(items) THEN Return("pending_acceptance")
     ELSE Return("completed")

(***************************************************************************)
(* The transaction records getTransactionStatus is applied to.             *)
(***************************************************************************)
SeqsUpTo(S, n) == UNION { [1..k -> S] : k \in 0..n }

Flags == { Undefined, Bool(TRUE), Bool(FALSE) }

Parties ==
  { Obj(<< <<"agreed", Bool(b)>> >>) : b \in BOOLEAN }

ScheduleEntries ==
  { Obj(<< <<"amount", Str("450")>> >>),
    Obj(<< <<"status", Obj(<< <<"secured", Bool(TRUE)>> >>)>> >>) }

ItemStatuses ==
  { Undefined,
    Obj(<< <<"shipped", Bool(TRUE)>> >>),
    Obj(<< <<"accepted", Bool(TRUE)>> >>),
    Obj(<< <<"shipped", Bool(TRUE)>>, <<"accepted", Bool(TRUE)>> >>) }

OptionalArrays(S, n) == { Undefined } \cup { Arr(q) : q \in SeqsUpTo(S, n) }

Items ==
  { Obj(<< <<"schedule", sch>>, <<"status", st>> >>) :
      sch \in OptionalArrays(ScheduleEntries, MaxSchedule), st \in ItemStatuses }

TransactionRecords ==
  { Obj(<< <<"is_cancelled", c>>, <<"is_draft", d>>, <<"parties", ps>>, <<"items", is>> >>) :
      c \in Flags, d \in Flags,
      ps \in OptionalArrays(Parties, MaxParties),
      is \in OptionalArrays(Items, MaxItems) }

(***************************************************************************)
(* State.                                                                  *)
(***************************************************************************)
VARIABLES
  env,        \* process.env as dotenv leaves it
  tester,     \* the EscrowAPITester: its fields
  transaction,\* testTransactionEndpoints' local `transaction`
  pc,         \* where main() stands
  wire,       \* every request the harness has handed to fetch, in order
  console,    \* the milestone lines printed so far
  exitCode,   \* the process's exit status; -1 while it runs
  call,       \* the client call last made: api, endpoint, method, data
  sent,       \* the requests that call handed to fetch
  outcome,    \* what that call returned or threw
  record,     \* the record handed to getTransactionStatus
  status,     \* what getTransactionStatus returned or threw
  client,     \* an EscrowClient: the fields of the aggregator and its facades
  calls       \* the calls made on that client: facade, request, and whether
              \* the call is pending, has returned or has thrown

harnessVars == <<env, tester, transaction, pc, wire, console, exitCode>>
requestVars == <<call, sent, outcome>>
statusVars == <<record, status>>
clientVars == <<client, calls>>
vars == <<env, tester, transaction, pc, wire, console, exitCode,
          call, sent, outcome, record, status, client, calls>>

None == [kind |-> "none"]

\* the parts of the state a specification does not exercise
HarnessIdle ==
  /\ env = [ESCROW_EMAIL |-> Undefined, ESCROW_PASSWORD |-> Undefined,
            ESCROW_SANDBOX |-> Undefined, TEST_BUYER_EMAIL |-> Undefined,
            TEST_SELLER_EMAIL |-> Undefined]
  /\ tester = None
  /\ transaction = Undefined
  /\ pc = "idle"
  /\ wire = << >>
  /\ console = << >>
  /\ exitCode = -1

RequestIdle == call = None /\ sent = << >> /\ outcome = None

StatusIdle == record = Undefined /\ status = None

ClientIdle == client = None /\ calls = << >>

(***************************************************************************)
(* The classifier applied to a record.                                     *)
(***************************************************************************)
StatusInit ==
  /\ record \in TransactionRecords
  /\ status = None
  /\ HarnessIdle
  /\ RequestIdle
  /\ ClientIdle

Classify ==
  /\ status = None
  /\ record # Undefined
  /\ status' = getTransactionStatus(record)
  /\ UNCHANGED <<record, harnessVars, requestVars, clientVars>>

StatusNext == Classify

SpecStatus == StatusInit /\ [][StatusNext]_vars

(***************************************************************************)
(* A client call on its own: one facade method, helper or direct           *)
(* makeRequest, answered by the transport.                                 *)
(***************************************************************************)
Verbs == { "GET", "POST", "PATCH", "PUT", "DELETE" }

\* the `data` arguments a direct makeRequest is given
Datas ==
  { Null, Num(0), Str(""), Obj(<< >>), Obj(<< <<"name", Str("key")>> >>) }

Ids == { Num(id) : id \in 1..MaxId }

\* the calls that carry a payload
PayloadCalls ==
  { createAPIKey(Str("key")), createWebhook(Str("https://example.com/return")),
    generateReport(Obj(<< <<"type", Str("transactions")>> >>)) }
  \cup { createTransaction(d) : d \in { Undefined, Obj(<< <<"currency", Str("usd")>> >>) } }
  \cup UNION { { performAction(id, Obj(<< <<"action", Str("cancel")>> >>)),
                 selectPaymentMethod(id, Str("wire_transfer"), Undefined),
                 selectPaymentMethod(id, Str("paypal"), Obj(<< >>)),
                 setDisbursementMethod(id, Obj(<< <<"type", Str("wire")>> >>)),
                 performItemAction(id, Num(1), Obj(<< <<"action", Str("ship")>> >>)),
                 createBasicTransaction(Str("b@x.com"), Str("s@x.com"), Str("Widget"),
                                        Str("A widget"), Num(100), Undefined),
                 agreeToTransaction(id),
                 shipItem(id, Str("UPS"), Str("1Z1")),
                 acceptItem(id),
                 rejectItem(id, Str("damaged")) } : id \in Ids }

\* the calls that only read
ReadCalls ==
  { getMyProfile, getAPIKeys, getDisbursementMethods, getWebhooks, listReports,
    listTransactions(Obj(<< >>)), listTransactions(Obj(<< <<"per_page", Num(5)>> >>)),
    listPartnerTransactions(Obj(<< >>)),
    listPartnerTransactions(Obj(<< <<"limit", Num(5)>>, <<"status", Str("shipped")>>,
                                   <<"customer_ids", Arr(<<Num(1), Num(2)>>)>> >>)),
    listPartnerCustomers(Obj(<< >>)), listPartnerCustomers(Obj(<< <<"limit", Num(5)>> >>)),
    getTransactionByReference(Str("ref-1")) }
  \cup UNION { { getCustomer(id), getTransaction(id), getTimeline(id),
                 getPaymentMethods(id), getWireDetails(id),
                 getPayPalURL(id, Str("https://example.com/return"), Undefined),
                 getTransactionDisbursements(id),
                 getItemWebLink(id, Num(1), Str("receive")),
                 downloadReport(id, Bool(FALSE)), downloadReport(id, Bool(TRUE)) } :
               id \in Ids }

APIs ==
  { EscrowAPI("me@example.com", "secret", isProduction) : isProduction \in BOOLEAN }

RequestInit ==
  /\ RequestIdle
  /\ HarnessIdle
  /\ StatusIdle
  /\ ClientIdle

\* the call c on the client api, answered by net
Invoke(api, c, net) ==
  LET r == makeRequest(api, c.endpoint, c.method, c.data, net)
  IN /\ call' = [api |-> api, endpoint |-> c.endpoint, method |-> c.method,
                 data |-> c.data, net |-> net]
     /\ sent' = r.sent
     /\ outcome' = r.outcome
     /\ UNCHANGED <<harnessVars, statusVars, clientVars>>

\* makeRequest(endpoint, method, data) called directly
DirectRequest ==
  /\ call = None
  /\ \E api \in APIs, method \in Verbs, data \in Datas, net \in Network :
       Invoke(api, Call("/customer/me", method, data), net)

\* a facade method or helper that reads
ReadRequest ==
  /\ call = None
  /\ \E api \in APIs, c \in ReadCalls, net \in Network : Invoke(api, c, net)

\* a facade method or helper that carries a payload
PayloadRequest ==
  /\ call = None
  /\ \E api \in APIs, c \in PayloadCalls, net \in Network : Invoke(api, c, net)

RequestNext == DirectRequest \/ ReadRequest \/ PayloadRequest

SpecRequest == RequestInit /\ [][RequestNext]_vars

(***************************************************************************)
(* The listing methods and the helpers of the aggregator, each called once *)
(* with its arguments on record: `call` also holds the method's name and   *)
(* arguments.                                                              *)
(***************************************************************************)
\* the answers of the transport to these calls: a failure to connect, a
\* JSON answer, an error answer, a page that is not JSON
Replies ==
  { [kind |-> "reject"] }
  \cup { [kind |-> "response",
          resp |-> [status |-> st, contentType |-> Str("application/json"),
                    text |-> JSONStringify(Obj(<< >>))]] : st \in {200, 401} }
  \cup { [kind |-> "response",
          resp |-> [status |-> 500, contentType |-> Str("text/html"),
                    text |-> "<html>Bad Gateway</html>"]] }

PageOptions ==
  { Obj(SelectProps(<< <<"page", page>>, <<"per_page", per_page>>,
                       <<"sort_by", sort_by>>, <<"sort_direction", sort_direction>> >>)) :
      page \in { Undefined, Num(2) }, per_page \in { Undefined, Num(5) },
      sort_by \in { Undefined, Str("date") },
      sort_direction \in { Undefined, Str("asc") } }

CursorOptions ==
  { Obj(SelectProps(<< <<"limit", limit>>, <<"next_cursor", next_cursor>>,
                       <<"sort_by", sort_by>>, <<"sort_direction", sort_direction>> >>)) :
      limit \in { Undefined, Num(5) }, next_cursor \in { Undefined, Num(2) },
      sort_by \in { Undefined, Str("date") },
      sort_direction \in { Undefined, Str("asc") } }

\* the filters of a partner listing: each left out or given, a zero amount
\* and an empty array among the values given
FilterOptions ==
  { Obj(SelectProps(<< <<"status", statusFilter>>, <<"customer_ids", customer_ids>>,
                       <<"min_amount", min_amount>>, <<"max_amount", max_amount>>,
                       <<"initiation_start_date", initiation_start_date>>,
                       <<"initiation_end_date", initiation_end_date>> >>)) :
      statusFilter \in { Undefined, Str("shipped") },
      customer_ids \in { Undefined, Arr(<< >>), Arr(<<Num(7)>>),
                         Arr(<<Num(7), Num(3)>>), Arr(<<Num(3), Num(7)>>) },
      min_amount \in { Undefined, Num(0), Num(50) },
      max_amount \in { Undefined, Num(0), Num(100) },
      initiation_start_date \in { Undefined, Str("2024-01-01") },
      initiation_end_date \in { Undefined, Str("2024-12-31") } }

\* filters and paging options in one object
PartnerFilters ==
  { Obj(o.props \o f.props) : o \in CursorOptions, f \in FilterOptions }

Emails == { Str("b@x.com"), Str("s@x.com") }
Amounts == { Num(100), Num(450), Str("100.00"), Str("100") }
Currencies == { Undefined, Str("usd"), Str("eur") }

\* the method `op` called with `args` on a client: it makes the call c,
\* answered by net
InvokeOp(api, op, args, c, net) ==
  LET r == makeRequest(api, c.endpoint, c.method, c.data, net)
  IN /\ call' = [api |-> api, endpoint |-> c.endpoint, method |-> c.method,
                 data |-> c.data, net |-> net, op |-> op, args |-> args]
     /\ sent' = r.sent
     /\ outcome' = r.outcome
     /\ UNCHANGED <<harnessVars, statusVars, clientVars>>

CallListTransactions ==
  /\ call = None
  /\ \E api \in APIs, options \in PageOptions, net \in Replies :
       InvokeOp(api, "listTransactions", <<options>>, listTransactions(options), net)

CallListPartnerTransactions ==
  /\ call = None
  /\ \E api \in APIs, filters \in PartnerFilters, net \in Replies :
       InvokeOp(api, "listPartnerTransactions", <<filters>>,
                listPartnerTransactions(filters), net)

CallListPartnerCustomers ==
  /\ call = None
  /\ \E api \in APIs, options \in CursorOptions, net \in Replies :
       InvokeOp(api, "listPartnerCustomers", <<options>>,
                listPartnerCustomers(options), net)

CallCreateBasicTransaction ==
  /\ call = None
  /\ \E api \in APIs, buyer \in Emails, seller \in Emails, amount \in Amounts,
        currency \in Currencies, net \in Replies :
       InvokeOp(api, "createBasicTransaction",
                <<buyer, seller, Str("Widget"), Str("A widget"), amount, currency>>,
                createBasicTransaction(buyer, seller, Str("Widget"), Str("A widget"),
                                       amount, currency),
                net)

CallAgreeToTransaction ==
  /\ call = None
  /\ \E api \in APIs, id \in Ids, net \in Replies :
       InvokeOp(api, "agreeToTransaction", <<id>>, agreeToTransaction(id), net)

CallShipItem ==
  /\ call = None
  /\ \E api \in APIs, id \in Ids, carrier \in { Str("UPS"), Str("FedEx") },
        trackingId \in { Str("1Z1"), Str("TRK2") }, net \in Replies :
       InvokeOp(api, "shipItem", <<id, carrier, trackingId>>,
                shipItem(id, carrier, trackingId), net)

CallAcceptItem ==
  /\ call = None
  /\ \E api \in APIs, id \in Ids, net \in Replies :
       InvokeOp(api, "acceptItem", <<id>>, acceptItem(id), net)

CallRejectItem ==
  /\ call = None
  /\ \E api \in APIs, id \in Ids,
        reason \in { Str("damaged"), Str("not as described") }, net \in Replies :
       InvokeOp(api, "rejectItem", <<id, reason>>, rejectItem(id, reason), net)

HelperNext ==
  \/ CallListTransactions
  \/ CallListPartnerTransactions
  \/ CallListPartnerCustomers
  \/ CallCreateBasicTransaction
  \/ CallAgreeToTransaction
  \/ CallShipItem
  \/ CallAcceptItem
  \/ CallRejectItem

SpecHelpers == RequestInit /\ [][HelperNext]_vars

(***************************************************************************)
(* One client under concurrent use. A call runs to its `await fetch`: the  *)
(* request is built from the fields of the object the method is called on  *)
(* and handed to fetch; the call settles later, and other calls may begin  *)
(* or settle in between. No method assigns a field of the client.          *)
(***************************************************************************)
Facades ==
  { "self", "customers", "transactions", "payments", "disbursements",
    "milestones", "partner" }

\* calls of each part of the client: makeRequest on the aggregator itself,
\* methods of the facades, and a helper (which goes through `transactions`)
ClientCalls ==
  { <<"self", Call("/customer/me", "GET", Null)>>,
    <<"customers", getMyProfile>>,
    <<"transactions", getTransaction(Num(1))>>,
    <<"transactions", agreeToTransaction(Num(1))>>,
    <<"payments", getPaymentMethods(Num(1))>>,
    <<"disbursements", getTransactionDisbursements(Num(1))>>,
    <<"milestones", getItemWebLink(Num(1), Num(1), Str("receive"))>>,
    <<"partner", listReports>> }

Clients ==
  { EscrowClient(email, "secret", isProduction) :
      email \in { "me@example.com", "other@example.com" }, isProduction \in BOOLEAN }

ClientInit ==
  /\ client \in Clients
  /\ calls = << >>
  /\ RequestIdle
  /\ HarnessIdle
  /\ StatusIdle

\* a method is called: it runs up to its `await fetch(url, options)`
BeginCall ==
  /\ Len(calls) < MaxCalls
  /\ \E fc \in ClientCalls :
       LET api == client[fc[1]]
           c == fc[2]
       IN calls' = Append(calls,
                          [ facade |-> fc[1], endpoint |-> c.endpoint,
                            method |-> c.method, data |-> c.data,
                            request |-> Request(api, c.endpoint, c.method,
                                                Default(c.data, Null)),
                            state |-> "pending" ])
  /\ UNCHANGED <<client, harnessVars, requestVars, statusVars>>

\* the transport answers a pending call, which returns or throws
SettleCall ==
  \E i \in 1..Len(calls) :
    /\ calls[i].state = "pending"
    /\ \E net \in Replies :
         LET r == makeRequest(client[calls[i].facade], calls[i].endpoint,
                              calls[i].method, calls[i].data, net)
         IN calls' = [calls EXCEPT ![i].state = r.outcome.kind]
    /\ UNCHANGED <<client, harnessVars, requestVars, statusVars>>

ClientNext == BeginCall \/ SettleCall

SpecClient == ClientInit /\ [][ClientNext]_vars

(***************************************************************************)
(* The test runner: EscrowAPITester and main(). Each probe is one action:  *)
(* the request is sent, the transport answers, and the code runs on to the *)
(* next request.                                                           *)
(***************************************************************************)
Envs ==
  [ ESCROW_EMAIL : { Undefined, Str("me@example.com") },
    ESCROW_PASSWORD : { Undefined, Str("secret") },
    ESCROW_SANDBOX : { Undefined, Str("true"), Str("false") },
    TEST_BUYER_EMAIL : { Undefined, Str("buyer@example.com") },
    TEST_SELLER_EMAIL : { Undefined, Str("seller@example.com") } ]

\* process.env.ESCROW_SANDBOX === "true"
IsSandbox(e) == e.ESCROW_SANDBOX = Str("true")

\* the EscrowAPITester constructor
EscrowAPITester(e) ==
  [ email |-> e.ESCROW_EMAIL,
    password |-> e.ESCROW_PASSWORD,
    isSandbox |-> IsSandbox(e),
    testBuyerEmail |-> e.TEST_BUYER_EMAIL,
    testSellerEmail |-> e.TEST_SELLER_EMAIL,
    client |-> Null,
    testTransactionId |-> Null ]

\* a variant that allows the creation in every run
canCreateTestTransactionAlways(t) == TRUE

\* canCreateTestTransaction(), as the `if` tests it
canCreateTestTransaction(t) ==
  Truthy(t.testBuyerEmail) /\ Truthy(t.testSellerEmail) /\ t.isSandbox

\* the payload createTestTransaction builds
TestTransactionData(t) ==
  Obj(<<
    <<"currency", Str("usd")>>,
    <<"description", Str("Test Transaction - API Integration Testing")>>,
    <<"parties", Arr(<<
        Obj(<< <<"role", Str("buyer")>>, <<"customer", t.email>> >>),
        Obj(<< <<"role", Str("seller")>>, <<"customer", t.testSellerEmail>> >>) >>)>>,
    <<"items", Arr(<<
        Obj(<<
          <<"title", Str("Test Item - Digital Camera")>>,
          <<"description", Str("Professional digital camera for testing purposes")>>,
          <<"type", Str("general_merchandise")>>,
          <<"inspection_period", Num(259200)>>,
          <<"quantity", Num(1)>>,
          <<"schedule", Arr(<<
              Obj(<< <<"amount", Num(450)>>,
                     <<"payer_customer", t.email>>,
                     <<"beneficiary_customer", t.testSellerEmail>> >>) >>)>>
        >>) >>)>>
  >>)

\* control going on to the next place of the run
Goto(label) == [pc |-> label, exitCode |-> -1, lines |-> << >>]

\* control caught by a catch block that logs and lets the run go on
Caught(label, line) == [pc |-> label, exitCode |-> -1, lines |-> <<line>>]

\* main's catch: it logs and calls process.exit(1)
MainCatch == [pc |-> "exited", exitCode |-> 1, lines |-> <<"Fatal error">>]

\* a variant of testCustomerEndpoints without its try: the error reaches
\* the catch of runTests, which logs and returns
CustomerCatchRethrows == Caught("cleanup", "Test failed")

\* where control goes when a probe throws: the catch of the enclosing try
CustomerCatch == Caught("tx_list", "Customer endpoint test failed")
TransactionCatch == Caught("partner_tx", "Transaction endpoint test failed")
PartnerCatch == Caught("run_end", "Partner endpoint test failed")

\* a variant of cleanup without its try: the error reaches main's catch
CleanupRethrows == MainCatch

\* cleanup's catch logs and returns
CleanupCatch == Caught("suite_end", "Cleanup failed")

HarnessInit ==
  /\ env \in Envs
  /\ tester = EscrowAPITester(env)
  /\ transaction = Undefined
  /\ pc = "initialize"
  /\ wire = << >>
  /\ console = <<"Escrow.com API Test Suite">>
  /\ exitCode = -1
  /\ RequestIdle
  /\ StatusIdle
  /\ ClientIdle

\* a variant of initialize() that constructs the client before it looks at
\* the credentials
InitializeConstructsFirst ==
  /\ pc = "initialize"
  /\ tester' = [tester EXCEPT !.client =
                  EscrowClient(ToStr(tester.email), ToStr(tester.password),
                               ~tester.isSandbox)]
  /\ IF ~Truthy(tester.email) \/ ~Truthy(tester.password)
       THEN /\ pc' = MainCatch.pc
            /\ exitCode' = MainCatch.exitCode
            /\ console' = console \o MainCatch.lines
       ELSE /\ pc' = "cust_profile"
            /\ console' = console \o <<"Initialized Escrow API client",
                                       "Starting Escrow API Tests">>
            /\ UNCHANGED exitCode
  /\ UNCHANGED <<env, transaction, wire, requestVars, statusVars, clientVars>>

\* initialize(): throws without credentials, else constructs the client
Initialize ==
  /\ pc = "initialize"
  /\ IF ~Truthy(tester.email) \/ ~Truthy(tester.password)
       THEN /\ pc' = MainCatch.pc
            /\ exitCode' = MainCatch.exitCode
            /\ console' = console \o MainCatch.lines
            /\ UNCHANGED tester
       ELSE /\ tester' = [tester EXCEPT !.client =
                            EscrowClient(tester.email.s, tester.password.s,
                                         ~tester.isSandbox)]
            /\ pc' = "cust_profile"
            /\ console' = console \o <<"Initialized Escrow API client",
                                       "Starting Escrow API Tests">>
            /\ UNCHANGED exitCode
  /\ UNCHANGED <<env, transaction, wire, requestVars, statusVars, clientVars>>

\* one probe, at its place in the run: the call c through the facade,
\* answered by net; control goes to
\* onReturn when the call returns a value the following code can read, and
\* to onThrow when the call, or the code reading its result, throws
Probe(facade, c, net, readsResult, onReturn, onThrow, lines) ==
  LET r == makeRequest(tester.client[facade], c.endpoint, c.method, c.data, net)
      ok == /\ r.outcome.kind = "return"
            /\ readsResult => ~IsNullish(r.outcome.value)
      to == IF ok THEN onReturn ELSE onThrow
  IN /\ wire' = wire \o r.sent
     /\ pc' = to.pc
     /\ exitCode' = to.exitCode
     /\ console' = console \o lines \o to.lines
     /\ UNCHANGED <<env, tester, transaction, requestVars, statusVars, clientVars>>

\* testCustomerEndpoints
GetMyProfile ==
  /\ pc = "cust_profile"
  /\ \E net \in Network :
       Probe("customers", getMyProfile, net, TRUE,
          Goto("cust_api_keys"), CustomerCatch, <<"Testing Customer Endpoints">>)

GetAPIKeys ==
  /\ pc = "cust_api_keys"
  /\ \E net \in Network :
       Probe("customers", getAPIKeys, net, FALSE,
          Goto("cust_disbursement"), CustomerCatch, << >>)

GetDisbursementMethods ==
  /\ pc = "cust_disbursement"
  /\ \E net \in Network :
       Probe("customers", getDisbursementMethods, net, FALSE,
          Goto("cust_webhooks"), CustomerCatch, << >>)

GetWebhooks ==
  /\ pc = "cust_webhooks"
  /\ \E net \in Network :
       Probe("customers", getWebhooks, net, FALSE,
          Goto("tx_list"), CustomerCatch, << >>)

\* testTransactionEndpoints: the listing, then the creation when allowed
ListTransactions ==
  /\ pc = "tx_list"
  /\ \E net \in Network :
       Probe("transactions", listTransactions(Obj(<< <<"per_page", Num(5)>> >>)), net, TRUE,
             IF canCreateTestTransaction(tester) THEN Goto("tx_create")
             ELSE Goto("partner_tx"),
             TransactionCatch, <<"Testing Transaction Endpoints">>)

\* createTestTransaction(): the created record, or null when the request
\* fails or its result cannot be read (its own catch logs and returns null)
CreatedTransaction(out) ==
  IF out.kind = "return" /\ ~IsNullish(out.value) THEN out.value ELSE Null

CreateLines(out) ==
  IF out.kind = "throw" THEN <<"Failed to create test transaction">>
  ELSE IF IsNullish(out.value)
    THEN <<"Test transaction created successfully", "Failed to create test transaction">>
  ELSE <<"Test transaction created successfully">>

\* `if (transaction && transaction.id)`
HasId(t) == Truthy(t) /\ Truthy(Get(t, "id"))

\* a variant that forgets the created transaction
RememberNothing(t, created) == t

\* this.testTransactionId = transaction.id
Remember(t, created) == [t EXCEPT !.testTransactionId = Get(created, "id")]

CreateTestTransaction ==
  /\ pc = "tx_create"
  /\ \E net \in Network :
       LET c == createTransaction(TestTransactionData(tester))
           r == makeRequest(tester.client.transactions, c.endpoint, c.method, c.data, net)
           created == CreatedTransaction(r.outcome)
       IN /\ wire' = wire \o r.sent
          /\ transaction' = created
          /\ console' = console \o CreateLines(r.outcome)
          /\ IF HasId(created)
               THEN /\ tester' = Remember(tester, created)
                    /\ pc' = "tx_get"
               ELSE /\ tester' = tester
                    /\ pc' = "partner_tx"
  /\ UNCHANGED <<env, exitCode, requestVars, statusVars, clientVars>>

TransactionId == Get(transaction, "id")

GetTransaction ==
  /\ pc = "tx_get"
  /\ \E net \in Network :
       Probe("transactions", getTransaction(TransactionId), net, FALSE,
             Goto("tx_timeline"), TransactionCatch, << >>)

GetTimeline ==
  /\ pc = "tx_timeline"
  /\ \E net \in Network :
       Probe("transactions", getTimeline(TransactionId), net, FALSE,
             Goto("tx_payment_methods"), TransactionCatch, << >>)

GetPaymentMethods ==
  /\ pc = "tx_payment_methods"
  /\ \E net \in Network :
       Probe("payments", getPaymentMethods(TransactionId), net, FALSE,
             Goto("tx_disbursements"), TransactionCatch, << >>)

GetTransactionDisbursements ==
  /\ pc = "tx_disbursements"
  /\ \E net \in Network :
       Probe("disbursements", getTransactionDisbursements(TransactionId), net, FALSE,
             Goto("tx_agree"), TransactionCatch, << >>)

\* `if (transaction.items && transaction.items.length > 0)`
HasItems(t) ==
  LET items == Get(t, "items")
  IN Truthy(items) /\ items.t = "array" /\ Len(items.elems) > 0

\* after the agree probe: the ship probe when the record has items
AfterAgree(t) == IF HasItems(t) THEN Goto("tx_ship") ELSE Goto("partner_tx")

\* the agree probe's own catch logs and goes on
AgreeCatch(t) == [AfterAgree(t) EXCEPT !.lines = <<"Agree action failed">>]

AgreeToTransaction ==
  /\ pc = "tx_agree"
  /\ \E net \in Network :
       Probe("transactions", agreeToTransaction(TransactionId), net, FALSE,
             AfterAgree(transaction), AgreeCatch(transaction), << >>)

\* the ship probe's own catch logs and goes on
ShipCatch == Caught("partner_tx", "Ship action failed")

ShipItem ==
  /\ pc = "tx_ship"
  /\ \E net \in Network :
       Probe("transactions", shipItem(TransactionId, Str("UPS"), Str("1Z999TEST123")),
             net, FALSE, Goto("partner_tx"), ShipCatch, << >>)

\* testPartnerEndpoints
ListPartnerTransactions ==
  /\ pc = "partner_tx"
  /\ \E net \in Network :
       Probe("partner", listPartnerTransactions(Obj(<< <<"limit", Num(5)>> >>)), net, TRUE,
             Goto("partner_customers"), PartnerCatch, <<"Testing Partner Endpoints">>)

ListPartnerCustomers ==
  /\ pc = "partner_customers"
  /\ \E net \in Network :
       Probe("partner", listPartnerCustomers(Obj(<< <<"limit", Num(5)>> >>)), net, TRUE,
             Goto("partner_reports"), PartnerCatch, << >>)

ListReports ==
  /\ pc = "partner_reports"
  /\ \E net \in Network :
       Probe("partner", listReports, net, FALSE, Goto("run_end"), PartnerCatch, << >>)

\* runTests' last line, after the three groups
RunTestsEnd ==
  /\ pc = "run_end"
  /\ console' = Append(console, "All tests completed successfully")
  /\ pc' = "cleanup"
  /\ UNCHANGED <<env, tester, transaction, wire, exitCode, requestVars, statusVars, clientVars>>

\* cleanup() with a transaction to cancel
CleanupCancel ==
  /\ pc = "cleanup"
  /\ Truthy(tester.testTransactionId)
  /\ \E net \in Network :
       Probe("transactions",
             performAction(tester.testTransactionId,
                           Obj(<< <<"action", Str("cancel")>> >>)),
             net, FALSE, Goto("suite_end"), CleanupCatch, <<"Cleaning up test transaction">>)

\* cleanup() with nothing to cancel
CleanupNothing ==
  /\ pc = "cleanup"
  /\ ~Truthy(tester.testTransactionId)
  /\ pc' = "suite_end"
  /\ UNCHANGED <<env, tester, transaction, wire, console, exitCode, requestVars, statusVars, clientVars>>

\* main's last line; the process then ends with status 0
MainEnd ==
  /\ pc = "suite_end"
  /\ console' = Append(console, "Test suite completed")
  /\ pc' = "exited"
  /\ exitCode' = 0
  /\ UNCHANGED <<env, tester, transaction, wire, requestVars, statusVars, clientVars>>

Next ==
  \/ Initialize
  \/ GetMyProfile
  \/ GetAPIKeys
  \/ GetDisbursementMethods
  \/ GetWebhooks
  \/ ListTransactions
  \/ CreateTestTransaction
  \/ GetTransaction
  \/ GetTimeline
  \/ GetPaymentMethods
  \/ GetTransactionDisbursements
  \/ AgreeToTransaction
  \/ ShipItem
  \/ ListPartnerTransactions
  \/ ListPartnerCustomers
  \/ ListReports
  \/ RunTestsEnd
  \/ CleanupCancel
  \/ CleanupNothing
  \/ MainEnd

Spec == HarnessInit /\ [][Next]_vars

(***************************************************************************)
(* The properties.                                                         *)
(***************************************************************************)
\* err[field], undefined when the error object has no such property
ErrorField(err, field) ==
  IF field \in DOMAIN err THEN err[field] ELSE Undefined

\* the call answered by a response that is not ok
AnsweredNotOk == call # None /\ call.net.kind = "response" /\ ~ResponseOk(call.net.resp)

\* C1: every makeRequest call answered with a non-2xx status fails with an
\* error object whose statusCode field is that status, whether or not the
\* body is valid JSON.
C1_ErrorCarriesStatusCode ==
  AnsweredNotOk =>
    /\ outcome.kind = "throw"
    /\ ErrorField(outcome.error, "statusCode") = Num(call.net.resp.status)

ProductionHost == "https://api.escrow.com"
SandboxHost == "https://api.escrow-sandbox.com"

CredentialsMissing ==
  ~Truthy(env.ESCROW_EMAIL) \/ ~Truthy(env.ESCROW_PASSWORD)

Logged(line) == \E i \in 1..Len(console) : console[i] = line

\* C2: main() exits non-zero if and only if initialize() fails for missing
\* credentials; once initialization has succeeded, whatever probes and
\* cleanup fail, the run goes on to the 'Test suite completed' step and
\* never exits with status 1.
C2_ExitNonZeroIffInitFails ==
  /\ pc = "exited" => (exitCode # 0 <=> CredentialsMissing)
  /\ ~CredentialsMissing => exitCode # 1
  /\ pc = "exited" /\ ~CredentialsMissing =>
       /\ exitCode = 0
       /\ console[Len(console)] = "Test suite completed"
  /\ pc # "exited" => ENABLED Next

\* a finished run in which a probe of every group and the cleanup failed
C2_Witness ==
  /\ pc = "exited"
  /\ exitCode = 0
  /\ Logged("Customer endpoint test failed")
  /\ Logged("Transaction endpoint test failed")
  /\ Logged("Partner endpoint test failed")
  /\ Logged("Cleanup failed")
  /\ console[Len(console)] = "Test suite completed"

\* the run created a transaction that has an id
CreatedWithId ==
  transaction.t = "object" /\ Get(transaction, "id").t = "number"

CancelBody == Str("{\"action\":\"cancel\"}")

IsCancelOf(req, id) ==
  /\ req.method = "PATCH"
  /\ req.path = "/transaction/" \o ToString(id)
  /\ req.body = CancelBody

CancelRequests ==
  { i \in 1..Len(wire) : wire[i].method = "PATCH" /\ wire[i].body = CancelBody }

\* C3: in every run in which createTestTransaction returned a transaction
\* with an id, cleanup() issues a PATCH /transaction/{id} with action
\* "cancel" for that id before the run ends, whichever later probes failed;
\* when no transaction was created, cleanup issues no request.
C3_CancelIssuedForCreated ==
  /\ CancelRequests # {} => pc \in {"suite_end", "exited"}
  /\ pc \in {"suite_end", "exited"} =>
       IF CreatedWithId
         THEN /\ CancelRequests = {Len(wire)}
              /\ IsCancelOf(wire[Len(wire)], Get(transaction, "id").n)
         ELSE CancelRequests = {}

\* a finished run that created a transaction, lost a later probe of the
\* transaction group and a partner probe, and cancelled the transaction
C3_Witness ==
  /\ pc = "exited"
  /\ CreatedWithId
  /\ Logged("Transaction endpoint test failed")
  /\ Logged("Partner endpoint test failed")
  /\ IsCancelOf(wire[Len(wire)], Get(transaction, "id").n)

MayCreate ==
  /\ Truthy(env.TEST_BUYER_EMAIL)
  /\ Truthy(env.TEST_SELLER_EMAIL)
  /\ env.ESCROW_SANDBOX = Str("true")

\* C4: the harness issues a mutating request (POST /transaction or any
\* PATCH) only in runs where TEST_BUYER_EMAIL and TEST_SELLER_EMAIL are set
\* and ESCROW_SANDBOX is "true"; in every other run, and in every run
\* against the production host, every request is a GET.
C4_MutatingOnlyInSandboxWithTestData ==
  \A i \in 1..Len(wire) :
    /\ wire[i].method # "GET" => MayCreate
    /\ wire[i].host = ProductionHost => wire[i].method = "GET"
    /\ wire[i].method \in {"GET", "POST", "PATCH"}
    /\ wire[i].method = "POST" => wire[i].path = "/transaction"

\* a finished run against production with both test emails set, all of whose
\* eight requests were GETs
C4_Witness ==
  /\ pc = "exited"
  /\ Truthy(env.TEST_BUYER_EMAIL)
  /\ Truthy(env.TEST_SELLER_EMAIL)
  /\ Len(wire) = 8
  /\ \A i \in 1..Len(wire) : wire[i].method = "GET" /\ wire[i].host = ProductionHost

\* C5: ESCROW_SANDBOX defaults to true: without it the harness builds its
\* client against the sandbox host and sends nothing to the production
\* host; the production host is used only when ESCROW_SANDBOX is "false".
C5_SandboxByDefault ==
  /\ tester.client # Null /\ env.ESCROW_SANDBOX = Undefined =>
       tester.client.self.baseURL = SandboxHost
  /\ \A i \in 1..Len(wire) :
       wire[i].host = ProductionHost => env.ESCROW_SANDBOX = Str("false")

\* C6: a record whose is_cancelled flag is set is classified "cancelled",
\* whatever is_draft, parties, items, schedules and item statuses are, and
\* whether or not they are there.
C6_CancelledWins ==
  status # None /\ Truthy(Get(record, "is_cancelled")) => status = Return("cancelled")

\* a cancelled draft without parties and items, classified "cancelled"
C6_Witness ==
  /\ status = Return("cancelled")
  /\ Get(record, "is_draft") = Bool(TRUE)
  /\ Get(record, "parties") = Undefined
  /\ Get(record, "items") = Undefined

\* the conditions of "completed", read off the record
RecordCompleted ==
  LET parties == Get(record, "parties")
      items == Get(record, "items")
  IN /\ Get(record, "is_cancelled") \in {Undefined, Bool(FALSE)}
     /\ Get(record, "is_draft") \in {Undefined, Bool(FALSE)}
     /\ parties.t = "array"
     /\ \A i \in 1..Len(parties.elems) : Get(parties.elems[i], "agreed") = Bool(TRUE)
     /\ items.t = "array"
     /\ \E i \in 1..Len(items.elems) :
          LET schedule == Get(items.elems[i], "schedule")
          IN /\ schedule.t = "array"
             /\ \E k \in 1..Len(schedule.elems) :
                  Get(Get(schedule.elems[k], "status"), "secured") = Bool(TRUE)
     /\ \E i \in 1..Len(items.elems) :
          Get(Get(items.elems[i], "status"), "shipped") = Bool(TRUE)
     /\ \E i \in 1..Len(items.elems) :
          Get(Get(items.elems[i], "status"), "accepted") = Bool(TRUE)

\* C7: getTransactionStatus returns "completed" only for a record that is
\* neither cancelled nor draft, all of whose parties agreed, with a secured
\* schedule entry, a shipped item and an accepted item; a record that
\* violates one of these is not "completed".
C7_CompletedOnlyWhen ==
  status = Return("completed") => RecordCompleted

\* a record with two agreed parties classified "completed"
C7_Witness ==
  /\ status = Return("completed")
  /\ Len(Get(record, "parties").elems) >= 2

\* C8: every facade or helper call hands exactly one request to fetch and
\* then returns or throws: a failure sends no second request and reaches
\* the caller as a thrown error.
C8_OneRequestNoRetry ==
  call # None =>
    /\ Len(sent) = 1
    /\ sent[1].method = call.method
    /\ sent[1].url = call.api.baseURL \o "/2017-09-01" \o call.endpoint
    /\ outcome.kind \in {"return", "throw"}
    /\ call.net.kind = "reject" => outcome = Throw(NetworkError)
    /\ AnsweredNotOk => outcome.kind = "throw"
    /\ outcome.kind = "return" => call.net.kind = "response" /\ ResponseOk(call.net.resp)

\* a helper's PATCH that met a network failure: one request, one throw
C8_Witness ==
  /\ call # None
  /\ call.method = "PATCH"
  /\ call.net.kind = "reject"
  /\ Len(sent) = 1
  /\ outcome.kind = "throw"

StatusLine(resp) ==
  "API Error: " \o ToString(resp.status) \o " - " \o StatusText(resp.status)

\* C9: for a non-2xx response whose body is not JSON, makeRequest throws
\* once, an Error whose message is built from the status code and status
\* text; when the body parses and has a (non-empty) error field the message
\* uses that field; the parse failure is never what the caller receives.
C9_ParseFailureSwallowed ==
  AnsweredNotOk =>
    LET resp == call.net.resp
    IN /\ outcome.kind = "throw"
       /\ outcome.error.name = "Error"
       /\ Len(sent) = 1
       /\ resp.text \in NonJSONTexts => outcome.error.message = StatusLine(resp)
       /\ \A e \in Encodings :
            e[1] = resp.text =>
              IF Truthy(e[2]) /\ Truthy(Get(e[2], "error"))
                THEN outcome.error.message =
                       "API Error: " \o ToString(resp.status) \o " - " \o Get(e[2], "error").s
                ELSE outcome.error.message = StatusLine(resp)

\* a 500 with an HTML body: the caller gets the status-line error
C9_Witness ==
  /\ AnsweredNotOk
  /\ call.net.resp.status = 500
  /\ call.net.resp.text = "<html>Bad Gateway</html>"
  /\ outcome = Throw([name |-> "Error",
                      message |-> "API Error: 500 - Internal Server Error"])

\* C10: the request has a body only when the verb is POST or PATCH and data
\* was supplied; a GET or any other verb has none even with data; a POST or
\* PATCH with a payload object, the empty object included, has that
\* object's JSON encoding as its body.
C10_BodyOnlyForPostPatch ==
  call # None =>
    LET body == sent[1].body
        mutating == call.method \in {"POST", "PATCH"}
    IN /\ body # Undefined => mutating /\ call.data \notin {Undefined, Null}
       /\ ~mutating => body = Undefined
       /\ mutating /\ call.data.t = "object" => body = Str(JSONStringify(call.data))
       /\ mutating /\ call.data = Obj(<< >>) => body = Str("{}")
       /\ mutating /\ call.data = Obj(<< <<"action", Str("agree")>> >>) =>
            body = Str("{\"action\":\"agree\"}")

\* selectPaymentMethod without options: a POST whose body is "{}"
C10_Witness ==
  /\ call # None
  /\ call.method = "POST"
  /\ call.endpoint = "/transaction/1/payment_methods/wire_transfer"
  /\ sent[1].body = Str("{}")

(***************************************************************************)
(* The listing methods and the helpers (SpecHelpers).                      *)
(***************************************************************************)
\* a method of the client has been called with its arguments on record
Called(op) == call # None /\ call.op = op

\* the value of a paging parameter in the query: the caller's, or the default
Given(options, key, default) ==
  IF Get(options, key) = Undefined THEN default ELSE ToStr(Get(options, key))

\* C11: for listTransactions, listPartnerTransactions and
\* listPartnerCustomers the query string carries every paging parameter, with
\* the caller's value when it is supplied and the default otherwise (page or
\* next_cursor 1, per_page or limit 10, sort_by "id", sort_direction "desc"),
\* each independently of the others
C11_ListingDefaults ==
  /\ Called("listTransactions") =>
        /\ Len(sent) = 1
        /\ sent[1].method = "GET"
        /\ sent[1].path =
             "/transaction?page=" \o Given(call.args[1], "page", "1")
               \o "&per_page=" \o Given(call.args[1], "per_page", "10")
               \o "&sort_by=" \o Given(call.args[1], "sort_by", "id")
               \o "&sort_direction=" \o Given(call.args[1], "sort_direction", "desc")
  /\ Called("listPartnerCustomers") =>
        /\ Len(sent) = 1
        /\ sent[1].method = "GET"
        /\ sent[1].path =
             "/partner/customers?limit=" \o Given(call.args[1], "limit", "10")
               \o "&next_cursor=" \o Given(call.args[1], "next_cursor", "1")
               \o "&sort_by=" \o Given(call.args[1], "sort_by", "id")
               \o "&sort_direction=" \o Given(call.args[1], "sort_direction", "desc")
  /\ Called("listPartnerTransactions") =>
        LET params == PartnerTransactionParams(call.args[1])
            paging ==
              "limit=" \o Given(call.args[1], "limit", "10")
                \o "&next_cursor=" \o Given(call.args[1], "next_cursor", "1")
                \o "&sort_by=" \o Given(call.args[1], "sort_by", "id")
                \o "&sort_direction=" \o Given(call.args[1], "sort_direction", "desc")
        IN /\ Len(sent) = 1
           /\ sent[1].method = "GET"
           /\ QueryString(SubSeq(params, 1, 4)) = paging
           /\ sent[1].path = "/partner/transactions?" \o QueryString(params)
           /\ Len(params) = 4 => sent[1].path = "/partner/transactions?" \o paging

\* a partner-customer listing with only the limit supplied: the other three
\* defaults are in the query
C11_Witness ==
  /\ Called("listPartnerCustomers")
  /\ call.args[1] = Obj(<< <<"limit", Num(5)>> >>)
  /\ sent[1].path = "/partner/customers?limit=5&next_cursor=1&sort_by=id&sort_direction=desc"

\* the first schedule entry and the fees of the only item of a payload
PayloadItem(data) == Get(data, "items").elems[1]

\* C12: createBasicTransaction submits one POST /transaction whose payload
\* has exactly the buyer and the seller as parties, one item of quantity 1,
\* one schedule entry whose amount is the amount as a two-decimal string,
\* paid by the buyer to the seller, and two "escrow" fees of split "0.5",
\* the first paid by the buyer and the second by the seller
C12_BasicTransactionPayload ==
  Called("createBasicTransaction") =>
    LET buyer == call.args[1]
        seller == call.args[2]
        amount == call.args[5]
        parties == Get(call.data, "parties").elems
        items == Get(call.data, "items").elems
        schedule == Get(PayloadItem(call.data), "schedule").elems
        fees == Get(PayloadItem(call.data), "fees").elems
    IN /\ Len(sent) = 1
       /\ sent[1].method = "POST"
       /\ sent[1].path = "/transaction"
       /\ sent[1].body = Str(JSONStringify(call.data))
       /\ Get(call.data, "currency") = Default(call.args[6], Str("usd"))
       /\ Len(parties) = 2
       /\ Get(parties[1], "role") = Str("buyer") /\ Get(parties[1], "customer") = buyer
       /\ Get(parties[2], "role") = Str("seller") /\ Get(parties[2], "customer") = seller
       /\ Len(items) = 1
       /\ Get(items[1], "quantity") = Num(1)
       /\ Len(schedule) = 1
       /\ Get(schedule[1], "amount") = Str(formatAmount(amount))
       /\ Get(schedule[1], "payer_customer") = buyer
       /\ Get(schedule[1], "beneficiary_customer") = seller
       /\ Len(fees) = 2
       /\ \A i \in 1..2 : /\ Get(fees[i], "type") = Str("escrow")
                            /\ Get(fees[i], "split") = Str("0.5")
       /\ Get(fees[1], "payer_customer") = buyer
       /\ Get(fees[2], "payer_customer") = seller

\* the body of a PATCH carrying only an action
ActionBody(action) == Str("{\"action\":\"" \o action \o "\"}")

\* C13: agreeToTransaction, shipItem, acceptItem and rejectItem each send
\* exactly one request, a PATCH to /transaction/{id} of the given id, whose
\* payload has the action "agree", "ship", "accept" or "reject"; the ship
\* payload nests carrier and tracking id under
\* shipping_information.tracking_information, the reject payload carries the
\* reason
C13_LifecycleHelpers ==
  /\ (call # None /\ call.op \in {"agreeToTransaction", "shipItem", "acceptItem", "rejectItem"}) =>
        /\ Len(sent) = 1
        /\ sent[1].method = "PATCH"
        /\ sent[1].path = "/transaction/" \o ToString(call.args[1].n)
        /\ sent[1].url = call.api.baseURL \o "/2017-09-01/transaction/"
                           \o ToString(call.args[1].n)
  /\ Called("agreeToTransaction") => sent[1].body = ActionBody("agree")
  /\ Called("acceptItem") => sent[1].body = ActionBody("accept")
  /\ Called("shipItem") =>
        sent[1].body =
          Str("{\"action\":\"ship\",\"shipping_information\":{\"tracking_information\":{\"carrier\":\""
                \o call.args[2].s \o "\",\"tracking_id\":\"" \o call.args[3].s \o "\"}}}")
  /\ Called("rejectItem") =>
        /\ Get(call.data, "action") = Str("reject")
        /\ Get(Get(call.data, "rejection_information"), "rejection_reason")
             = call.args[2]
        /\ sent[1].body =
             Str("{\"action\":\"reject\",\"rejection_information\":{\"rejection_reason\":\""
                   \o call.args[2].s \o "\"}}")

\* shipItem(1, "UPS", "1Z1") has sent its PATCH
C13_Witness ==
  /\ Called("shipItem")
  /\ call.args = <<Num(1), Str("UPS"), Str("1Z1")>>
  /\ sent[1].method = "PATCH"
  /\ sent[1].path = "/transaction/1"
  /\ Get(Get(Get(call.data, "shipping_information"), "tracking_information"), "carrier")
       = Str("UPS")

\* the values of the entries named `name`, in order
Values(params, name) ==
  LET named == SelectSeq(params, LAMBDA p : p[1] = name)
  IN [i \in 1..Len(named) |-> named[i][2]]

ScalarFilters ==
  { "status", "min_amount", "max_amount", "initiation_start_date", "initiation_end_date" }

\* C14: in listPartnerTransactions a filter the caller supplies, whatever its
\* value (a numeric amount of 0 included), is in the query string with that
\* value, a filter the caller omits is not, and an array of customer_ids
\* gives one customer_ids entry per element, in order
C14_FiltersVerbatim ==
  Called("listPartnerTransactions") =>
    LET filters == call.args[1]
        params == PartnerTransactionParams(filters)
        customer_ids == Get(filters, "customer_ids")
    IN /\ sent[1].path = "/partner/transactions?" \o QueryString(params)
       /\ \A name \in ScalarFilters :
            Values(params, name) =
              IF Get(filters, name) = Undefined THEN << >>
              ELSE << ToStr(Get(filters, name)) >>
       /\ Values(params, "customer_ids") =
            IF customer_ids = Undefined THEN << >>
            ELSE [i \in 1..Len(customer_ids.elems) |-> ToStr(customer_ids.elems[i])]

(***************************************************************************)
(* One client under concurrent use (SpecClient).                           *)
(***************************************************************************)
\* the aggregator and the six facades hold the same host, version and
\* Authorization header, those of the constructor's arguments
SameConfiguration ==
  /\ \A f \in Facades :
       /\ client[f].baseURL = client["self"].baseURL
       /\ client[f].version = client["self"].version
       /\ client[f].authHeader = client["self"].authHeader
       /\ client[f].email = client["self"].email
       /\ client[f].password = client["self"].password
  /\ client["self"].baseURL \in { ProductionHost, SandboxHost }
  /\ client["self"].authHeader =
       "Basic base64(" \o client["self"].email \o ":" \o client["self"].password \o ")"

\* every request made so far went to the client's host with its header
SameDestination ==
  \A i \in 1..Len(calls) :
    /\ calls[i].request.host = client["self"].baseURL
    /\ calls[i].request.headers.Authorization = client["self"].authHeader
    /\ calls[i].request.url =
         client["self"].baseURL \o "/2017-09-01" \o calls[i].endpoint

\* C15: the aggregator and all six facades of a constructed client hold the
\* same host and Authorization header, given by the constructor's arguments;
\* no call, beginning or settling in any order among concurrent calls,
\* changes the client's fields, and every request goes to that host with
\* that header
C15_SharedImmutableConfiguration ==
  /\ [](client # None => SameConfiguration /\ SameDestination)
  /\ [][client' = client]_vars

\* two calls on different facades of a production client are in flight at
\* once, the second begun before the first settled
C15_Witness ==
  /\ client # None
  /\ client["self"].baseURL = ProductionHost
  /\ Len(calls) = 2
  /\ calls[1].facade = "partner" /\ calls[1].state = "pending"
  /\ calls[2].facade = "self" /\ calls[2].state = "pending"

(***************************************************************************)
(* The classifier's order (SpecStatus).                                    *)
(***************************************************************************)
StatusNames ==
  { "cancelled", "draft", "pending_agreement", "pending_payment",
    "pending_shipment", "pending_acceptance", "completed" }

\* the six conditions, read off the record
FlagSet(name) == Get(record, name) \notin { Undefined, Bool(FALSE) }

SomePartyNotAgreed ==
  LET parties == Get(record, "parties")
  IN parties.t = "array"
       /\ \E i \in 1..Len(parties.elems) : Get(parties.elems[i], "agreed") # Bool(TRUE)

SomeScheduleSecured ==
  LET items == Get(record, "items")
  IN items.t = "array"
       /\ \E i \in 1..Len(items.elems) :
            LET schedule == Get(items.elems[i], "schedule")
            IN schedule.t = "array"
                 /\ \E k \in 1..Len(schedule.elems) :
                      Get(Get(schedule.elems[k], "status"), "secured") = Bool(TRUE)

SomeItem(flag) ==
  LET items == Get(record, "items")
  IN items.t = "array"
       /\ \E i \in 1..Len(items.elems) :
            Get(Get(items.elems[i], "status"), flag) = Bool(TRUE)

\* the first condition that applies, in the fixed order
FirstApplicable ==
  IF FlagSet("is_cancelled") THEN "cancelled"
  ELSE IF FlagSet("is_draft") THEN "draft"
  ELSE IF SomePartyNotAgreed THEN "pending_agreement"
  ELSE IF ~SomeScheduleSecured THEN "pending_payment"
  ELSE IF ~SomeItem("shipped") THEN "pending_shipment"
  ELSE IF ~SomeItem("accepted") THEN "pending_acceptance"
  ELSE "completed"

\* a record with its parties, its items and every item's schedule in place
RecordComplete ==
  LET parties == Get(record, "parties")
      items == Get(record, "items")
  IN /\ parties.t = "array"
     /\ items.t = "array"
     /\ \A i \in 1..Len(items.elems) : Get(items.elems[i], "schedule").t = "array"

\* C16: getTransactionStatus returns one of the seven status names, the one
\* of the first condition that applies in the order cancelled flag, draft
\* flag, a party that has not agreed, no secured schedule entry, no shipped
\* item, no accepted item; a later condition never overrides an earlier one
\* (a draft with unagreed parties is "draft", a record without a secured
\* schedule but with a shipped item is "pending_payment"), and a record with
\* its parties, items and schedules in place always gets a status
C16_FirstConditionWins ==
  status # None =>
    /\ status.kind = "return" =>
          /\ status.value \in StatusNames
          /\ status.value = FirstApplicable
    /\ RecordComplete => status.kind = "return"
    /\ (FlagSet("is_draft") /\ ~FlagSet("is_cancelled")) => status = Return("draft")

\* all parties agreed, nothing secured, an item shipped: "pending_payment"
C16_Witness ==
  /\ status = Return("pending_payment")
  /\ Get(record, "parties").t = "array"
  /\ Len(Get(record, "parties").elems) >= 1
  /\ SomeItem("shipped")
  /\ ~SomeScheduleSecured

(***************************************************************************)
(* The order of the probe groups (Spec).                                   *)
(***************************************************************************)
CustomerSteps == { "cust_profile", "cust_api_keys", "cust_disbursement", "cust_webhooks" }
TransactionSteps ==
  { "tx_list", "tx_create", "tx_get", "tx_timeline", "tx_payment_methods",
    "tx_disbursements", "tx_agree", "tx_ship" }
PartnerSteps == { "partner_tx", "partner_customers", "partner_reports" }

\* the step taken prints `line` for the first time
NewlyLogged(line) ==
  /\ ~Logged(line)
  /\ \E i \in 1..Len(console') : console'[i] = line

\* the position of the first `line` on the console, 0 when it is not there
LineAt(line) ==
  IF Logged(line) THEN CHOOSE i \in 1..Len(console) :
                         console[i] = line /\ \A j \in 1..(i - 1) : console[j] # line
  ELSE 0

\* the probe that follows a probe which did not fail, within its group
FollowingProbe ==
  CASE pc = "cust_profile" -> {"cust_api_keys"}
    [] pc = "cust_api_keys" -> {"cust_disbursement"}
    [] pc = "cust_disbursement" -> {"cust_webhooks"}
    [] pc = "cust_webhooks" -> {"tx_list"}
    [] pc = "tx_list" -> {"tx_create", "partner_tx"}
    [] pc = "tx_create" -> {"tx_get", "partner_tx"}
    [] pc = "tx_get" -> {"tx_timeline"}
    [] pc = "tx_timeline" -> {"tx_payment_methods"}
    [] pc = "tx_payment_methods" -> {"tx_disbursements"}
    [] pc = "tx_disbursements" -> {"tx_agree"}
    [] pc = "tx_agree" -> {"tx_ship", "partner_tx"}
    [] pc = "tx_ship" -> {"partner_tx"}
    [] pc = "partner_tx" -> {"partner_customers"}
    [] pc = "partner_customers" -> {"partner_reports"}
    [] pc = "partner_reports" -> {"run_end"}
    [] OTHER -> {pc'}

\* one step of the run, as the groups are ordered: a group is left only for
\* the start of the next one; a probe that fails ends its group and nothing
\* else; a probe that does not fail is followed by the next probe of its
\* group; a failing agree is followed by the ship probe when the created
\* record has items
GroupStep ==
  /\ (pc \in CustomerSteps /\ pc' \notin CustomerSteps) => pc' = "tx_list"
  /\ (pc \in TransactionSteps /\ pc' \notin TransactionSteps) => pc' = "partner_tx"
  /\ (pc \in PartnerSteps /\ pc' \notin PartnerSteps) => pc' = "run_end"
  /\ pc = "cust_profile" => NewlyLogged("Testing Customer Endpoints")
  /\ pc = "tx_list" => NewlyLogged("Testing Transaction Endpoints")
  /\ pc = "partner_tx" => NewlyLogged("Testing Partner Endpoints")
  /\ pc \in CustomerSteps \cup TransactionSteps \cup PartnerSteps =>
       /\ Len(wire') = Len(wire) + 1
       /\ wire'[Len(wire) + 1].host = tester.client["self"].baseURL
  /\ (pc \in CustomerSteps /\ NewlyLogged("Customer endpoint test failed")) =>
       pc' = "tx_list"
  /\ (pc \in TransactionSteps /\ NewlyLogged("Transaction endpoint test failed")) =>
       pc' = "partner_tx"
  /\ (pc \in PartnerSteps /\ NewlyLogged("Partner endpoint test failed")) =>
       pc' = "run_end"
  /\ (/\ ~NewlyLogged("Customer endpoint test failed")
      /\ ~NewlyLogged("Transaction endpoint test failed")
      /\ ~NewlyLogged("Partner endpoint test failed")) => pc' \in FollowingProbe
  /\ pc = "tx_agree" =>
       /\ ~NewlyLogged("Transaction endpoint test failed")
       /\ pc' = IF HasItems(transaction) THEN "tx_ship" ELSE "partner_tx"
  /\ pc = "run_end" =>
       /\ NewlyLogged("All tests completed successfully")
       /\ pc' = "cleanup"

\* where a run with credentials stands after runTests
AfterRunTests ==
  /\ ~CredentialsMissing
  /\ pc \in { "cleanup", "suite_end", "exited" }

\* the three groups were started once each, in order, before the last line
\* of runTests
GroupsInOrder ==
  /\ 0 < LineAt("Testing Customer Endpoints")
  /\ LineAt("Testing Customer Endpoints") < LineAt("Testing Transaction Endpoints")
  /\ LineAt("Testing Transaction Endpoints") < LineAt("Testing Partner Endpoints")
  /\ LineAt("Testing Partner Endpoints") < LineAt("All tests completed successfully")
  /\ \A line \in { "Testing Customer Endpoints", "Testing Transaction Endpoints",
                    "Testing Partner Endpoints", "All tests completed successfully" } :
       Cardinality({ i \in 1..Len(console) : console[i] = line }) = 1

\* C17: after a successful initialize() the customer, transaction and
\* partner groups start in that order, each whatever failed before it; in a
\* group the first failing probe skips the rest of that group only, except
\* that a failing agree does not prevent the ship probe; so the run always
\* comes to the 'All tests completed successfully' step, also when every
\* probe failed
C17_GroupsRunInOrder ==
  /\ [][GroupStep]_vars
  /\ [](AfterRunTests => GroupsInOrder)
  /\ []((~CredentialsMissing /\ pc # "exited") => ENABLED Next)

\* runTests has ended after the first probe of each group failed: three
\* requests, three failures, and the last line of runTests
C17_Witness ==
  /\ pc = "cleanup"
  /\ Len(wire) = 3
  /\ Logged("Customer endpoint test failed")
  /\ Logged("Transaction endpoint test failed")
  /\ Logged("Partner endpoint test failed")
  /\ console[Len(console)] = "All tests completed successfully"

(***************************************************************************)
(* A run without credentials (Spec).                                       *)
(***************************************************************************)
\* C18: when ESCROW_EMAIL or ESCROW_PASSWORD is missing the harness sends no
\* request: initialize() fails before a client is constructed, nothing of
\* runTests or cleanup is executed, and the process exits with status 1
C18_NoRequestWithoutCredentials ==
  CredentialsMissing =>
    /\ wire = << >>
    /\ tester.client = Null
    /\ tester.testTransactionId = Null
    /\ transaction = Undefined
    /\ pc \in { "initialize", "exited" }
    /\ pc = "initialize" =>
         /\ exitCode = -1
         /\ console = <<"Escrow.com API Test Suite">>
         /\ ENABLED Initialize
    /\ pc = "exited" =>
         /\ exitCode = 1
         /\ console = <<"Escrow.com API Test Suite", "Fatal error">>

\* the process has exited with status 1 for a missing password, the email
\* and the test data being set
C18_Witness ==
  /\ pc = "exited"
  /\ exitCode = 1
  /\ env.ESCROW_EMAIL = Str("me@example.com")
  /\ env.ESCROW_PASSWORD = Undefined
  /\ env.ESCROW_SANDBOX = Str("true")
  /\ Truthy(env.TEST_BUYER_EMAIL) /\ Truthy(env.TEST_SELLER_EMAIL)
  /\ wire = << >>

====
